---- MODULE Spec2Model ----
(***************************************************************************)
(* A model of flakc, a Brain-Flak compiler: the driver (main.rs), the      *)
(* lexer and parser (parser.rs), the symbolic translator (ast.rs), the C   *)
(* generator (gen.rs) and the execution of the C program it emits.         *)
(***************************************************************************)
EXTENDS Integers, Sequences, FiniteSets, TLC

VARIABLES
    pc,     \* position of the driver / compiled program
    fs,     \* the files main.rs touches: [cfile, exe]
    opt,    \* command line of the compiler: [output_c]
    src,    \* the input file's text, a sequence of characters
    args,   \* the numeric arguments the compiled program is run with
    lx,     \* the locals of lex(): [pos, ts, flags, block_comment_level]
    diags,  \* what report() printed: sequence of [level, msg, pos]
    tree,   \* the Ast parse() returned
    todo,   \* translate_with_effects: the instructions of `ast` not yet iterated
    tr,     \* translate_with_effects: [effects, cur_effect, result]
    hist,   \* history: for each instruction iterated, the instruction and tr before it
    expr,   \* the Expr translate() returned
    code,   \* the statements compile() wrote to the C file
    rt,     \* the compiled program's state
    val     \* a Value under the operations of impl Value

vars == <<pc, fs, opt, src, args, lx, diags, tree, todo, tr, hist, expr, code, rt, val>>

(***************************************************************************)
(* Bounds of the model.                                                    *)
(***************************************************************************)
MaxNodes == 4      \* instructions in a translated instruction tree
MaxCoef == 2       \* |coefficient| and |constant| of a Value in the Value algebra runs
MaxChars == 5      \* characters of a source text given to parse() alone
MaxIters == 5      \* loop iterations of the compiled program that are followed

Min(S) == CHOOSE x \in S : \A y \in S : x <= y
Max(S) == CHOOSE x \in S : \A y \in S : x >= y
Last(s) == s[Len(s)]
Front(s) == SubSeq(s, 1, Len(s) - 1)
Abs(x) == IF x < 0 THEN 0 - x ELSE x

(***************************************************************************)
(* ast.rs: Inst and Ast.  An instruction is [op, body]; the body of a      *)
(* nilad is empty.                                                         *)
(***************************************************************************)
Nilads == {"One", "Size", "Pop", "Toggle"}
Compounds == {"Push", "Negate", "Loop", "Exec"}
Nilad(op) == [op |-> op, body |-> <<>>]
Compound(op, body) == [op |-> op, body |-> body]

(***************************************************************************)
(* ast.rs: ValuePart and Value.  parts is the Vec of (part, multiplier)    *)
(* pairs, kept as a sequence so that order and duplicates are visible.     *)
(***************************************************************************)
CurStackElem(n) == [k |-> "CurStackElem", n |-> n]
OffStackElem(n) == [k |-> "OffStackElem", n |-> n]
CurStackSize == [k |-> "CurStackSize", n |-> 0]
OffStackSize == [k |-> "OffStackSize", n |-> 0]
LoopResult(n) == [k |-> "LoopResult", n |-> n]

zero == [const_val |-> 0, parts |-> <<>>]

negate(v) ==
    [const_val |-> v.const_val * (-1),
     parts |-> [i \in 1..Len(v.parts) |-> <<v.parts[i][1], v.parts[i][2] * (-1)>>]]

add_const(v, other) == [v EXCEPT !.const_val = @ + other]

\* Vec::swap_remove: the last element takes the place of element i
swap_remove(s, i) ==
    IF i = Len(s) THEN Front(s) ELSE [Front(s) EXCEPT ![i] = Last(s)]

\* a plausible slip: the entry whose multiplier reaches zero is kept
add_part_n_keep_zero(v, part, n) ==
    LET hits == {i \in 1..Len(v.parts) : v.parts[i][1] = part} IN
    IF hits # {}
    THEN [v EXCEPT !.parts[Min(hits)] = <<part, v.parts[Min(hits)][2] + n>>]
    ELSE [v EXCEPT !.parts = Append(@, <<part, n>>)]

add_part_n(v, part, n) ==
    LET hits == {i \in 1..Len(v.parts) : v.parts[i][1] = part} IN
    IF hits # {}
    THEN LET i == Min(hits)
             m == v.parts[i][2] + n
         IN  IF m = 0
             THEN [v EXCEPT !.parts = swap_remove(@, i)]
             ELSE [v EXCEPT !.parts[i] = <<part, m>>]
    ELSE [v EXCEPT !.parts = Append(@, <<part, n>>)]

add_part(v, part) == add_part_n(v, part, 1)

RECURSIVE add_parts(_, _)
add_parts(v, ps) ==
    IF ps = <<>> THEN v
    ELSE add_parts(add_part_n(v, Head(ps)[1], Head(ps)[2]), Tail(ps))

add(v, other) ==
    add_parts([v EXCEPT !.const_val = @ + other.const_val], other.parts)

\* the multiplier a Value gives an atom (0 when the atom is absent), summed over
\* every entry naming it
RECURSIVE CoefSum(_, _)
CoefSum(ps, part) ==
    IF ps = <<>> THEN 0
    ELSE (IF Head(ps)[1] = part THEN Head(ps)[2] ELSE 0) + CoefSum(Tail(ps), part)

PartsOf(v) == {v.parts[i][1] : i \in 1..Len(v.parts)}

\* two Values denote the same linear expression
SameValue(a, b) ==
    /\ a.const_val = b.const_val
    /\ \A part \in PartsOf(a) \cup PartsOf(b) :
           CoefSum(a.parts, part) = CoefSum(b.parts, part)

Canonical(v) ==
    /\ \A i, j \in 1..Len(v.parts) : v.parts[i][1] = v.parts[j][1] => i = j
    /\ \A i \in 1..Len(v.parts) : v.parts[i][2] # 0

(***************************************************************************)
(* ast.rs: StackEffect.  toggles is a history field: the number of Toggle  *)
(* instructions iterated while the batch was the open one.                 *)
(***************************************************************************)
StackEffect_new ==
    [cur_pop |-> 0, cur_push |-> <<>>, off_pop |-> 0, off_push |-> <<>>,
     toggle |-> FALSE, toggles |-> 0]

is_empty(e) ==
    e.cur_pop = 0 /\ e.cur_push = <<>> /\ e.off_pop = 0 /\ e.off_push = <<>>
        /\ e.toggle = FALSE

\* pop_push(): the counter and the queue of the side the toggle flag selects
pop_of(e) == IF ~e.toggle THEN e.cur_pop ELSE e.off_pop
push_of(e) == IF ~e.toggle THEN e.cur_push ELSE e.off_push
set_pop(e, n) == IF ~e.toggle THEN [e EXCEPT !.cur_pop = n] ELSE [e EXCEPT !.off_pop = n]
set_push(e, q) == IF ~e.toggle THEN [e EXCEPT !.cur_push = q] ELSE [e EXCEPT !.off_push = q]

\* a plausible slip: the element atom does not follow the toggle flag
stack_elem_cur(e, t) == CurStackElem(t)

stack_elem(e, t) == IF ~e.toggle THEN CurStackElem(t) ELSE OffStackElem(t)
stack_size(e) == IF ~e.toggle THEN CurStackSize ELSE OffStackSize

(***************************************************************************)
(* ast.rs: Effect, Expr, push_effect.                                      *)
(***************************************************************************)
EffectStack(e) == [k |-> "Stack", e |-> e]
EffectLoop(x) == [k |-> "Loop", e |-> x]

\* a plausible slip: the batch is dropped instead of logged
push_effect_drop(effects, effect) == effects

\* a plausible slip: the batch is logged without the emptiness test
push_effect_always(effects, effect) == Append(effects, EffectStack(effect))

push_effect(effects, effect) ==
    IF ~is_empty(effect) THEN Append(effects, EffectStack(effect)) ELSE effects

(***************************************************************************)
(* ast.rs: translate_with_effects, one operator per match arm.  st is      *)
(* [effects, cur_effect, result]; sub is what the recursive call on the    *)
(* body returned.                                                          *)
(***************************************************************************)
ArmOne(st) == [st EXCEPT !.result = add_const(@, 1)]

\* a plausible slip: the pending pushes and pops of the batch are left out
ArmSize_no_offset(st) == [st EXCEPT !.result = add_part(@, stack_size(st.cur_effect))]

ArmSize(st) ==
    LET r1 == add_part(st.result, stack_size(st.cur_effect))
    IN  [st EXCEPT !.result =
            add_const(r1, Len(push_of(st.cur_effect)) - pop_of(st.cur_effect))]

\* a plausible slip: a queued push is not cancelled, the slot below is read
ArmPop_no_cancel(st) ==
    LET ce == st.cur_effect IN
    [st EXCEPT !.result = add_part(@, stack_elem(ce, pop_of(ce))),
               !.cur_effect = set_pop(ce, pop_of(ce) + 1)]

ArmPop(st) ==
    LET ce == st.cur_effect IN
    IF push_of(ce) = <<>>
    THEN [st EXCEPT !.result = add_part(@, stack_elem(ce, pop_of(ce))),
                    !.cur_effect = set_pop(ce, pop_of(ce) + 1)]
    ELSE [st EXCEPT !.result = add(@, Last(push_of(ce))),
                    !.cur_effect = set_push(ce, Front(push_of(ce)))]

\* a plausible slip: the flag is set instead of flipped
ArmToggle_set(st) ==
    [st EXCEPT !.cur_effect.toggle = TRUE, !.cur_effect.toggles = @ + 1]

ArmToggle(st) ==
    [st EXCEPT !.cur_effect.toggle = ~@, !.cur_effect.toggles = @ + 1]

ArmPush(st, sub) ==
    [effects |-> sub.effects,
     cur_effect |-> set_push(sub.cur_effect, Append(push_of(sub.cur_effect), sub.result)),
     result |-> add(st.result, sub.result)]

ArmNegate(st, sub) ==
    [effects |-> sub.effects,
     cur_effect |-> sub.cur_effect,
     result |-> add(st.result, negate(sub.result))]

\* a plausible slip: the open batch is logged but not replaced
ArmLoop_keep_batch(st, body) ==
    LET es == Append(push_effect(st.effects, st.cur_effect), EffectLoop(body))
    IN  [effects |-> es,
         cur_effect |-> st.cur_effect,
         result |-> add_part(st.result, LoopResult(Len(es) - 1))]

\* body is translate(a), the finished Expr of the loop's own scope
ArmLoop(st, body) ==
    LET es == Append(push_effect(st.effects, st.cur_effect), EffectLoop(body))
    IN  [effects |-> es,
         cur_effect |-> StackEffect_new,
         result |-> add_part(st.result, LoopResult(Len(es) - 1))]

ArmExec(st, sub) ==
    [effects |-> sub.effects, cur_effect |-> sub.cur_effect, result |-> st.result]

RECURSIVE translate_with_effects(_, _, _), translate(_), translate_rest(_, _)

\* one iteration of `for inst in ast`
translate_inst(inst, st) ==
    CASE inst.op = "One" -> ArmOne(st)
      [] inst.op = "Size" -> ArmSize(st)
      [] inst.op = "Pop" -> ArmPop(st)
      [] inst.op = "Toggle" -> ArmToggle(st)
      [] inst.op = "Push" ->
            ArmPush(st, translate_with_effects(inst.body, st.effects, st.cur_effect))
      [] inst.op = "Negate" ->
            ArmNegate(st, translate_with_effects(inst.body, st.effects, st.cur_effect))
      [] inst.op = "Loop" -> ArmLoop(st, translate(inst.body))
      [] inst.op = "Exec" ->
            ArmExec(st, translate_with_effects(inst.body, st.effects, st.cur_effect))

translate_rest(ast, st) ==
    IF ast = <<>> THEN st
    ELSE translate_rest(Tail(ast), translate_inst(Head(ast), st))

translate_with_effects(ast, effects, cur_effect) ==
    translate_rest(ast, [effects |-> effects, cur_effect |-> cur_effect, result |-> zero])

translate(ast) ==
    LET r == translate_with_effects(ast, <<>>, StackEffect_new)
    IN  [effects |-> push_effect(r.effects, r.cur_effect), result |-> r.result]

(***************************************************************************)
(* parser.rs: tokens.  A token is [ty, d, pos]; d is the delimiter type of *)
(* an Open or Close token and "None" for Junk; pos counts characters from  *)
(* 0 as chars().enumerate() does.                                          *)
(***************************************************************************)
Token(ty, d, pos) == [ty |-> ty, d |-> d, pos |-> pos]

Openers == {"(", "{", "[", "<"}
Closers == {")", "}", "]", ">"}
Whitespace == {" ", "\n", "\t"}

DelimType(c) ==
    CASE c \in {"(", ")"} -> "Paren"
      [] c \in {"{", "}"} -> "Brace"
      [] c \in {"[", "]"} -> "Bracket"
      [] c \in {"<", ">"} -> "Angle"

Diag(level, msg, pos) == [level |-> level, msg |-> msg, pos |-> pos]

\* the locals of lex() before the first character
lex_start ==
    [pos |-> 0, ts |-> <<>>, line_is_false_comment |-> FALSE,
     line_is_comment |-> FALSE, last_was_hash |-> FALSE, block_comment_level |-> 0]

\* the statements after the match: the warning for instructions after junk
after_match(l) == [l EXCEPT !.line_is_false_comment = FALSE]

after_match_diags(l, d) ==
    IF l.line_is_false_comment
    THEN Append(d, Diag("warning",
             "instructions appear after earlier junk characters on the same line", l.pos))
    ELSE d

\* the branch taken while line_is_comment is set
lex_in_line_comment(l, c) ==
    LET l1 == IF l.last_was_hash /\ c = "{"
              THEN [l EXCEPT !.line_is_comment = FALSE, !.block_comment_level = 1]
              ELSE l
        l2 == IF c = "\n" THEN [l1 EXCEPT !.line_is_comment = FALSE] ELSE l1
    IN  [l2 EXCEPT !.last_was_hash = FALSE, !.pos = @ + 1]

\* a block comment that does not count the braces opened inside it
lex_in_block_comment_flat(l, c) ==
    [l EXCEPT !.block_comment_level = IF c = "}" THEN @ - 1 ELSE @,
              !.pos = @ + 1]

\* the branch taken while block_comment_level > 0
lex_in_block_comment(l, c) ==
    [l EXCEPT !.block_comment_level =
                  IF c = "{" THEN @ + 1 ELSE IF c = "}" THEN @ - 1 ELSE @,
              !.pos = @ + 1]

\* the eight delimiter arms of the match
lex_delim(l, c) ==
    [after_match(l) EXCEPT
        !.ts = Append(@, Token(IF c \in Openers THEN "Open" ELSE "Close",
                               DelimType(c), l.pos)),
        !.pos = @ + 1]

\* the '#' arm
lex_hash(l) ==
    [after_match(l) EXCEPT !.last_was_hash = TRUE, !.line_is_comment = TRUE,
                           !.pos = @ + 1]

\* the `_` arm
lex_junk(l, c) ==
    [l EXCEPT
        !.line_is_false_comment =
            IF c = "\n" THEN FALSE ELSE IF c \notin Whitespace THEN TRUE ELSE @,
        !.ts = IF @ # <<>> /\ Last(@).ty = "Junk" THEN @
               ELSE Append(@, Token("Junk", "None", l.pos)),
        !.pos = @ + 1]

(***************************************************************************)
(* parser.rs: parse_tokens.  The result is [ok, ast, ts, diags, panic]:    *)
(* ok is FALSE for None, ts is what is left of the token slice, diags what *)
(* report() printed, panic an index out of the slice's bounds.             *)
(***************************************************************************)
NiladOf(t) ==
    CASE t = "Paren" -> Nilad("One")
      [] t = "Brace" -> Nilad("Pop")
      [] t = "Bracket" -> Nilad("Size")
      [] t = "Angle" -> Nilad("Toggle")

CompoundOf(t, ast) ==
    CASE t = "Paren" -> Compound("Push", ast)
      [] t = "Brace" -> Compound("Loop", ast)
      [] t = "Bracket" -> Compound("Negate", ast)
      [] t = "Angle" -> Compound("Exec", ast)

ParseResult(ok, ast, ts, ds, panic) ==
    [ok |-> ok, ast |-> ast, ts |-> ts, diags |-> ds, panic |-> panic]

\* the instruction `first` was pushed to `a`; `r` is the rest of the while loop
ParseCons(first, ds, r) ==
    ParseResult(r.ok, IF r.ok THEN <<first>> \o r.ast ELSE <<>>, r.ts, ds \o r.diags,
                r.panic)

\* any closing delimiter is taken for the expected one
IsClose_any(tok, t) == tok.ty = "Close"

IsClose(tok, t) == tok.ty = "Close" /\ tok.d = t

RECURSIVE parse_tokens(_)
parse_tokens(ts) ==
    IF ts = <<>> THEN ParseResult(TRUE, <<>>, ts, <<>>, FALSE)
    ELSE IF ts[1].ty = "Close" THEN ParseResult(TRUE, <<>>, ts, <<>>, FALSE)
    ELSE IF ts[1].ty = "Junk" THEN parse_tokens(Tail(ts))
    ELSE LET t == ts[1].d IN
         IF Len(ts) >= 3 /\ ts[2].ty = "Junk" /\ IsClose(ts[3], t)
         THEN ParseCons(NiladOf(t),
                        <<Diag("warning", "junk characters enclosed within nilad",
                               ts[2].pos)>>,
                        parse_tokens(SubSeq(ts, 4, Len(ts))))
         ELSE IF Len(ts) >= 2 /\ IsClose(ts[2], t)
         THEN ParseCons(NiladOf(t), <<>>, parse_tokens(SubSeq(ts, 3, Len(ts))))
         ELSE LET prev_pos == ts[1].pos
                  inner == parse_tokens(Tail(ts))
                  rest == inner.ts
              IN  IF ~inner.ok THEN inner
                  ELSE IF rest = <<>>
                  THEN ParseResult(FALSE, <<>>, rest,
                           Append(inner.diags,
                                  Diag("error", "unclosed delimiter", prev_pos)),
                           FALSE)
                  ELSE LET post_pos == rest[1].pos
                           len == IF rest[1].ty = "Junk" THEN 2 ELSE 1
                       IN  IF len > Len(rest)
                           THEN ParseResult(FALSE, <<>>, rest, inner.diags, TRUE)
                           ELSE IF IsClose(rest[len], t)
                           THEN ParseCons(CompoundOf(t, inner.ast), inner.diags,
                                    parse_tokens(SubSeq(rest, len + 1, Len(rest))))
                           ELSE ParseResult(FALSE, <<>>, rest,
                                    Append(inner.diags,
                                           Diag("error", "incorrect closing delimiter",
                                                post_pos + len - 1)),
                                    FALSE)

\* parse(), after lex() returned Some(ts)
parse(ts) ==
    LET r == parse_tokens(ts) IN
    IF r.ok /\ r.ts # <<>>
    THEN ParseResult(FALSE, <<>>, r.ts,
             Append(r.diags, Diag("error", "unexpected closing delimiter", r.ts[1].pos)),
             FALSE)
    ELSE r

(***************************************************************************)
(* gen.rs: the text compile() writes, as a sequence of C statements.  A    *)
(* statement is [op, side, n, name, val]; side "s" stands for the triple   *)
(* (s, p, c) and side "o" for (o, d, v).  A C expression written by        *)
(* compile_value is [const, terms], each term [ref, n, mul]:               *)
(*   ref "s": s[p-n]   ref "o": o[d-n]   ref "p": p   ref "d": d           *)
(*   ref "r": the variable r<n>                                            *)
(***************************************************************************)
InitCap == 1024

NoName == [v |-> "", i |-> 0, j |-> 0]
TempName(i, effect_index) == [v |-> "t", i |-> i, j |-> effect_index]
LoopName(i) == [v |-> "r", i |-> i, j |-> 0]
NoExpr == [const |-> 0, terms |-> <<>>]

Stmt(op, side, n, name, v) == [op |-> op, side |-> side, n |-> n, name |-> name, val |-> v]

CTerm(part, mul) ==
    CASE part.k = "CurStackElem" -> [ref |-> "s", n |-> part.n + 1, mul |-> mul]
      [] part.k = "OffStackElem" -> [ref |-> "o", n |-> part.n + 1, mul |-> mul]
      [] part.k = "CurStackSize" -> [ref |-> "p", n |-> 0, mul |-> mul]
      [] part.k = "OffStackSize" -> [ref |-> "d", n |-> 0, mul |-> mul]
      [] part.k = "LoopResult" -> [ref |-> "r", n |-> part.n, mul |-> mul]

compile_value(v) ==
    [const |-> v.const_val,
     terms |-> [i \in 1..Len(v.parts) |-> CTerm(v.parts[i][1], v.parts[i][2])]]

\* if(p+offset>c){c*=2;s=realloc(s,c*sizeof(l));}
GrowStmt(side, offset) ==
    IF offset > 0 THEN <<Stmt("grow", side, offset, NoName, NoExpr)>> ELSE <<>>

\* returns [code, offset]: what was written to b, and the Ok(offset)
compile_single_stack_effect(pop, push, is_off, effect_index) ==
    LET side == IF ~is_off THEN "s" ELSE "o"
        offset == Len(push) - pop
        l == Len(push)
    IN  [code |->
            GrowStmt(side, offset)
            \o [i \in 1..l |->
                  Stmt("temp", side, 0, TempName(i - 1, effect_index),
                       compile_value(push[i]))]
            \o [i \in 1..l |->
                  Stmt("store", side, (i - 1) - pop, TempName(i - 1, effect_index),
                       NoExpr)],
         offset |-> offset]

\* {size_t t=p;p=d;d=t;size_t g=c;c=v;v=g;l*h=s;s=o;o=h;}
SwapStmt(toggle) ==
    IF toggle THEN <<Stmt("swap", "s", 0, NoName, NoExpr)>> ELSE <<>>

\* the Effect::Stack arm of compile_effects, for the effect at index i.  The
\* leading "batch" statement has no text: it marks where the batch's code begins.
compile_stack_arm(e, i) ==
    LET cur == compile_single_stack_effect(e.cur_pop, e.cur_push, FALSE, i * 2)
        off == compile_single_stack_effect(e.off_pop, e.off_push, TRUE, i * 2 + 1)
    IN  <<Stmt("batch", "s", i, NoName, NoExpr)>>
        \o cur.code \o off.code
        \o (IF cur.offset # 0
            THEN <<Stmt("add", "s", cur.offset, NoName, NoExpr)>> ELSE <<>>)
        \o (IF off.offset # 0
            THEN <<Stmt("add", "o", off.offset, NoName, NoExpr)>> ELSE <<>>)
        \o SwapStmt(e.toggle)

RECURSIVE compile_effects_from(_, _)
\* the iterations i, i+1, ... of `for (i, effect) in e.into_iter().enumerate()`
compile_effects_from(e, i) ==
    IF i >= Len(e) THEN <<>>
    ELSE LET effect == e[i + 1] IN
         (IF effect.k = "Stack"
          THEN compile_stack_arm(effect.e, i)
          ELSE <<Stmt("decl", "s", 0, LoopName(i), NoExpr),
                 Stmt("while", "s", 0, NoName, NoExpr),
                 Stmt("acc", "s", 0, LoopName(i), compile_value(effect.e.result))>>
               \o compile_effects_from(effect.e.effects, 0)
               \o <<Stmt("end", "s", 0, NoName, NoExpr)>>)
         \o compile_effects_from(e, i + 1)

compile_effects(e) == compile_effects_from(e, 0)

\* prologue: the mallocs, p=argc-1, d=0, c=v=1024 and the atoll loop;
\* print: for(size_t i=p-1;i!=-1;i--)printf("%lld\n", s[i]);
compile(e) ==
    <<Stmt("prologue", "s", 0, NoName, NoExpr)>>
    \o compile_effects(e.effects)
    \o <<Stmt("print_init", "s", 0, NoName, NoExpr),
         Stmt("print", "s", 0, NoName, NoExpr)>>

(***************************************************************************)
(* The C program's state.  size_t values (p, d, c, v, i) are unsigned and  *)
(* 64 bits wide; each is held as its representative in (-2^63, 2^63), so a *)
(* negative number stands for the wrapped value 2^64 + x.  s and o hold    *)
(* the slots up to the highest written one, slot j at position j + 1; hs   *)
(* and ho are the slots among them that were never written.                *)
(***************************************************************************)
\* unsigned a > b on representatives
UGt(a, b) ==
    IF a < 0 THEN (b >= 0 \/ a > b) ELSE (b >= 0 /\ a > b)

Mem(r, side) == IF side = "s" THEN r.s ELSE r.o
Holes(r, side) == IF side = "s" THEN r.hs ELSE r.ho
Top(r, side) == IF side = "s" THEN r.p ELSE r.d
Cap(r, side) == IF side = "s" THEN r.c ELSE r.v

\* slot idx of the array holds a value that was written
Readable(r, side, idx) ==
    idx >= 0 /\ idx < Len(Mem(r, side)) /\ idx < Cap(r, side)
        /\ idx \notin Holes(r, side)

\* env is the stack of open blocks, each the sequence of <<name, value>> of the
\* variables declared in it so far
Declares(frame, name) == \E i \in 1..Len(frame) : frame[i][1] = name
SlotOf(frame, name) == CHOOSE i \in 1..Len(frame) : frame[i][1] = name

\* the innermost block that declares `name`, 0 if none does
FrameOf(env, name) ==
    LET has == {f \in 1..Len(env) : Declares(env[f], name)}
    IN  IF has = {} THEN 0 ELSE Max(has)

Lookup(env, name) ==
    LET frame == env[FrameOf(env, name)] IN frame[SlotOf(frame, name)][2]

TermOk(r, t) ==
    CASE t.ref \in {"s", "o"} -> Readable(r, t.ref, Top(r, t.ref) - t.n)
      [] t.ref \in {"p", "d"} -> TRUE
      [] t.ref = "r" -> FrameOf(r.env, LoopName(t.n)) # 0

TermVal(r, t) ==
    CASE t.ref \in {"s", "o"} -> Mem(r, t.ref)[Top(r, t.ref) - t.n + 1]
      [] t.ref = "p" -> r.p
      [] t.ref = "d" -> r.d
      [] t.ref = "r" -> Lookup(r.env, LoopName(t.n))

EvalOk(r, e) == \A i \in 1..Len(e.terms) : TermOk(r, e.terms[i])

RECURSIVE SumTerms(_, _, _)
SumTerms(r, ts, i) ==
    IF i > Len(ts) THEN 0 ELSE TermVal(r, ts[i]) * ts[i].mul + SumTerms(r, ts, i + 1)

Eval(r, e) == e.const + SumTerms(r, e.terms, 1)

\* s[idx] = x
WriteSlot(m, idx, x) ==
    IF idx < Len(m) THEN [m EXCEPT ![idx + 1] = x]
    ELSE m \o [j \in 1..(idx - Len(m)) |-> 0] \o <<x>>

\* the never-written slots after s[idx] = x
WriteHoles(m, h, idx) == (h \cup {j \in 0..(idx - 1) : j >= Len(m)}) \ {idx}

RECURSIVE MatchEnd(_, _, _)
\* the index of the "end" closing the block entered before position i at depth n
MatchEnd(c, i, n) ==
    IF c[i].op = "end" THEN (IF n = 0 THEN i ELSE MatchEnd(c, i + 1, n - 1))
    ELSE IF c[i].op = "while" THEN MatchEnd(c, i + 1, n + 1)
    ELSE MatchEnd(c, i + 1, n)

RECURSIVE MatchWhile(_, _, _)
MatchWhile(c, i, n) ==
    IF c[i].op = "while" THEN (IF n = 0 THEN i ELSE MatchWhile(c, i - 1, n - 1))
    ELSE IF c[i].op = "end" THEN MatchWhile(c, i - 1, n + 1)
    ELSE MatchWhile(c, i - 1, n)

\* the number of blocks open at statement i of the text c
Depth(c, i) ==
    Cardinality({j \in 1..(i - 1) : c[j].op = "while"})
        - Cardinality({j \in 1..(i - 1) : c[j].op = "end"})

\* statement q of c is in the scope of a declaration of `name`: one stands before it
\* in a block that is still open at q
InScope(c, q, name) ==
    \E dd \in 1..(q - 1) :
        /\ c[dd].op \in {"decl", "temp"}
        /\ c[dd].name = name
        /\ \A e \in dd..q : Depth(c, e) >= Depth(c, dd)

\* the C compiler accepts the text: every accumulator an expression names is
\* declared where it is named
Compiles(c) ==
    {q \in 1..Len(c) :
        \E k \in 1..Len(c[q].val.terms) :
            /\ c[q].val.terms[k].ref = "r"
            /\ ~InScope(c, q, LoopName(c[q].val.terms[k].n))} = {}

NoSnap == [s |-> <<>>, o |-> <<>>, p |-> 0, d |-> 0, c |-> 0, v |-> 0, env |-> <<>>]

\* the state before main() runs; ip is the statement executed next
rt_start ==
    [ip |-> 1, s |-> <<>>, o |-> <<>>, p |-> 0, d |-> 0, c |-> 0, v |-> 0,
     hs |-> {}, ho |-> {}, env |-> <<>>, i |-> 0, out |-> <<>>, fault |-> "",
     \* history fields
     iters |-> 0,            \* loop bodies entered
     entry |-> NoSnap,       \* memory when the current batch began
     tmp |-> <<0, 0>>,       \* the last temporary: its value, and its value on entry
     stored |-> 0,           \* slot writes of the current batch that have landed
     late |-> FALSE,         \* the last temporary was computed after such a write
     grown |-> <<0, 0, 0>>,  \* the last reallocation: top, offset, new capacity
     swaps |-> 0]            \* exchanges executed

Snap(r) == [s |-> r.s, o |-> r.o, p |-> r.p, d |-> r.d, c |-> r.c, v |-> r.v, env |-> r.env]
AtEntry(r) ==
    [r EXCEPT !.s = r.entry.s, !.o = r.entry.o, !.p = r.entry.p, !.d = r.entry.d]

(***************************************************************************)
(* main.rs: the driver.                                                    *)
(***************************************************************************)
tr_start == [effects |-> <<>>, cur_effect |-> StackEffect_new, result |-> zero]
NoExprYet == [effects |-> <<>>, result |-> zero]

\* let mut output = fs::File::create(c_name)?;
MainCreate ==
    /\ pc = "main"
    /\ fs' = [fs EXCEPT !.cfile = "empty"]
    /\ pc' = "read"
    /\ UNCHANGED <<opt, src, args, lx, diags, tree, todo, tr, hist, expr, code, rt, val>>

\* let input = fs::read_to_string(args.input)?;  and the call of parser::parse
MainRead ==
    /\ pc = "read"
    /\ lx' = lex_start
    /\ pc' = "lex"
    /\ UNCHANGED <<fs, opt, src, args, diags, tree, todo, tr, hist, expr, code, rt, val>>

(***************************************************************************)
(* parser.rs: lex(), one action per branch of the loop over the characters *)
(***************************************************************************)
CurChar == src[lx.pos + 1]
Lexing == pc = "lex" /\ lx.pos < Len(src)
LexFrame == UNCHANGED <<pc, fs, opt, src, args, tree, todo, tr, hist, expr, code, rt, val>>

LexInLineComment ==
    /\ Lexing
    /\ lx.line_is_comment
    /\ lx' = lex_in_line_comment(lx, CurChar)
    /\ UNCHANGED diags
    /\ LexFrame

LexInBlockComment ==
    /\ Lexing
    /\ ~lx.line_is_comment
    /\ lx.block_comment_level > 0
    /\ lx' = lex_in_block_comment(lx, CurChar)
    /\ UNCHANGED diags
    /\ LexFrame

LexDelim ==
    /\ Lexing
    /\ ~lx.line_is_comment
    /\ lx.block_comment_level = 0
    /\ CurChar \in Openers \cup Closers
    /\ lx' = lex_delim(lx, CurChar)
    /\ diags' = after_match_diags(lx, diags)
    /\ LexFrame

LexHash ==
    /\ Lexing
    /\ ~lx.line_is_comment
    /\ lx.block_comment_level = 0
    /\ CurChar = "#"
    /\ lx' = lex_hash(lx)
    /\ diags' = after_match_diags(lx, diags)
    /\ LexFrame

LexJunk ==
    /\ Lexing
    /\ ~lx.line_is_comment
    /\ lx.block_comment_level = 0
    /\ CurChar \notin Openers \cup Closers \cup {"#"}
    /\ lx' = lex_junk(lx, CurChar)
    /\ UNCHANGED diags
    /\ LexFrame

\* after the loop: None for an unclosed block comment, else Some(ts)
LexEnd ==
    /\ pc = "lex"
    /\ lx.pos = Len(src)
    /\ IF lx.block_comment_level > 0
       THEN /\ diags' = Append(diags, Diag("error", "unclosed block comment", 0))
            /\ pc' = "exit"
       ELSE /\ UNCHANGED diags
            /\ pc' = "parse"
    /\ UNCHANGED <<fs, opt, src, args, lx, tree, todo, tr, hist, expr, code, rt, val>>

\* parse() from `parse_tokens(&mut token_slice, s)?` on, and main's let-else
Parse ==
    /\ pc = "parse"
    /\ LET r == parse(lx.ts) IN
        /\ diags' = diags \o r.diags
        /\ tree' = r.ast
        /\ pc' = IF r.panic THEN "panic" ELSE IF r.ok THEN "parsed" ELSE "exit"
    /\ UNCHANGED <<fs, opt, src, args, lx, todo, tr, hist, expr, code, rt, val>>

(***************************************************************************)
(* ast.rs: translate(), one action per instruction of the top-level Ast.   *)
(***************************************************************************)
\* let mut e = Vec::new(); let mut ce = StackEffect::new(); and the call
MainTranslate ==
    /\ pc = "parsed"
    /\ todo' = tree
    /\ tr' = tr_start
    /\ hist' = <<>>
    /\ pc' = "translate"
    /\ UNCHANGED <<fs, opt, src, args, lx, diags, tree, expr, code, rt, val>>

TrInst(op) ==
    /\ pc = "translate"
    /\ todo # <<>>
    /\ Head(todo).op = op
    /\ tr' = translate_inst(Head(todo), tr)
    /\ todo' = Tail(todo)
    /\ hist' = Append(hist, [inst |-> Head(todo), before |-> tr])
    /\ UNCHANGED <<pc, fs, opt, src, args, lx, diags, tree, expr, code, rt, val>>

TrOne == pc = "translate" /\ TrInst("One")
TrSize == pc = "translate" /\ TrInst("Size")
TrPop == pc = "translate" /\ TrInst("Pop")
TrToggle == pc = "translate" /\ TrInst("Toggle")
TrPush == pc = "translate" /\ TrInst("Push")
TrNegate == pc = "translate" /\ TrInst("Negate")
TrLoop == pc = "translate" /\ TrInst("Loop")
TrExec == pc = "translate" /\ TrInst("Exec")

\* push_effect(&mut e, ce); Expr { effects: e, result: r }
TrFinish ==
    /\ pc = "translate"
    /\ todo = <<>>
    /\ expr' = [effects |-> push_effect(tr.effects, tr.cur_effect), result |-> tr.result]
    /\ pc' = "translated"
    /\ UNCHANGED <<fs, opt, src, args, lx, diags, tree, todo, tr, hist, code, rt, val>>

(***************************************************************************)
(* main.rs: gen::compile(&mut output, code) and the gcc run.               *)
(***************************************************************************)
MainCompile ==
    /\ pc = "translated"
    /\ code' = compile(expr)
    /\ fs' = [fs EXCEPT !.cfile = "code"]
    /\ pc' = IF opt.output_c THEN "exit" ELSE "gcc"
    /\ UNCHANGED <<opt, src, args, lx, diags, tree, todo, tr, hist, expr, rt, val>>

\* gcc writes the executable unless it rejects the text; its exit status is not read
MainGcc ==
    /\ pc = "gcc"
    /\ fs' = IF Compiles(code) THEN [fs EXCEPT !.exe = "built"] ELSE fs
    /\ pc' = "exit"
    /\ UNCHANGED <<opt, src, args, lx, diags, tree, todo, tr, hist, expr, code, rt, val>>

(***************************************************************************)
(* The compiled program, one action per kind of statement gen.rs writes.   *)
(***************************************************************************)
RunFrame == UNCHANGED <<fs, opt, src, args, lx, diags, tree, todo, tr, hist, expr, code, val>>

\* the program text exists, a C compiler accepts it, and it is run with args
RunStart ==
    /\ pc = "exit"
    /\ fs.cfile = "code"
    /\ Compiles(code)
    /\ rt' = rt_start
    /\ pc' = "run"
    /\ RunFrame

Running == pc = "run" /\ rt.ip <= Len(code)
CurStmt == code[rt.ip]
Bind(r, name, x) == [r.env EXCEPT ![Len(r.env)] = Append(@, <<name, x>>)]

\* the statement about to run reads or writes outside what the program owns
Faulting ==
    LET st == CurStmt IN
    CASE st.op = "prologue" -> Len(args) > InitCap
      [] st.op \in {"temp", "acc"} -> ~EvalOk(rt, st.val)
      [] st.op = "store" ->
            ~(Top(rt, st.side) + st.n >= 0 /\ Top(rt, st.side) + st.n < Cap(rt, st.side))
      [] st.op = "while" -> rt.p # 0 /\ ~Readable(rt, "s", rt.p - 1)
      [] st.op = "print" -> rt.i # -1 /\ ~Readable(rt, "s", rt.i)
      [] OTHER -> FALSE

Exec(op) == Running /\ CurStmt.op = op /\ ~Faulting

RunPrologue ==
    /\ Exec("prologue")
    /\ rt' = [rt EXCEPT !.s = args, !.p = Len(args), !.d = 0, !.c = InitCap,
                        !.v = InitCap, !.env = << <<>> >>, !.ip = @ + 1]
    /\ UNCHANGED pc
    /\ RunFrame

RunBatch ==
    /\ Exec("batch")
    /\ rt' = [rt EXCEPT !.entry = Snap(rt), !.stored = 0, !.ip = @ + 1]
    /\ UNCHANGED pc
    /\ RunFrame

RunGrow ==
    /\ Exec("grow")
    /\ LET st == CurStmt
           top == Top(rt, st.side)
           cap == Cap(rt, st.side)
       IN  IF UGt(top + st.n, cap)
           THEN rt' = [rt EXCEPT !.c = IF st.side = "s" THEN cap * 2 ELSE @,
                                 !.v = IF st.side = "o" THEN cap * 2 ELSE @,
                                 !.grown = <<top, st.n, cap * 2>>,
                                 !.ip = @ + 1]
           ELSE rt' = [rt EXCEPT !.ip = @ + 1]
    /\ UNCHANGED pc
    /\ RunFrame

RunTemp ==
    /\ Exec("temp")
    /\ LET st == CurStmt
           x == Eval(rt, st.val)
           pre == IF EvalOk(AtEntry(rt), st.val) THEN Eval(AtEntry(rt), st.val) ELSE x
       IN  rt' = [rt EXCEPT !.env = Bind(rt, st.name, x),
                            !.tmp = <<x, pre>>,
                            !.late = (rt.stored > 0),
                            !.ip = @ + 1]
    /\ UNCHANGED pc
    /\ RunFrame

RunStore ==
    /\ Exec("store")
    /\ LET st == CurStmt
           idx == Top(rt, st.side) + st.n
           x == Lookup(rt.env, st.name)
       IN  rt' = [rt EXCEPT
                    !.s = IF st.side = "s" THEN WriteSlot(@, idx, x) ELSE @,
                    !.o = IF st.side = "o" THEN WriteSlot(@, idx, x) ELSE @,
                    !.hs = IF st.side = "s" THEN WriteHoles(rt.s, @, idx) ELSE @,
                    !.ho = IF st.side = "o" THEN WriteHoles(rt.o, @, idx) ELSE @,
                    !.stored = @ + 1,
                    !.ip = @ + 1]
    /\ UNCHANGED pc
    /\ RunFrame

RunAdd ==
    /\ Exec("add")
    /\ rt' = [rt EXCEPT !.p = IF CurStmt.side = "s" THEN @ + CurStmt.n ELSE @,
                        !.d = IF CurStmt.side = "o" THEN @ + CurStmt.n ELSE @,
                        !.ip = @ + 1]
    /\ UNCHANGED pc
    /\ RunFrame

RunSwap ==
    /\ Exec("swap")
    /\ rt' = [rt EXCEPT !.p = rt.d, !.d = rt.p, !.c = rt.v, !.v = rt.c,
                        !.s = rt.o, !.o = rt.s, !.hs = rt.ho, !.ho = rt.hs,
                        !.swaps = @ + 1, !.ip = @ + 1]
    /\ UNCHANGED pc
    /\ RunFrame

RunDecl ==
    /\ Exec("decl")
    /\ rt' = [rt EXCEPT !.env = Bind(rt, CurStmt.name, 0), !.ip = @ + 1]
    /\ UNCHANGED pc
    /\ RunFrame

\* a plausible slip: the guard tests the height only
LoopGuard_height_only(r) == r.p # 0

\* p&&s[p-1]
LoopGuard(r) == IF r.p = 0 THEN FALSE ELSE r.s[r.p] # 0

\* while(p&&s[p-1]){ with the guard true: a new block is entered
RunWhileEnter ==
    /\ Exec("while")
    /\ LoopGuard(rt)
    /\ rt.iters < MaxIters
    /\ rt' = [rt EXCEPT !.env = Append(@, <<>>), !.iters = @ + 1, !.ip = @ + 1]
    /\ UNCHANGED pc
    /\ RunFrame

RunWhileExit ==
    /\ Exec("while")
    /\ ~LoopGuard(rt)
    /\ rt' = [rt EXCEPT !.ip = MatchEnd(code, rt.ip + 1, 0) + 1]
    /\ UNCHANGED pc
    /\ RunFrame

RunAcc ==
    /\ Exec("acc")
    /\ LET name == CurStmt.name
           f == FrameOf(rt.env, name)
       IN  rt' = [rt EXCEPT !.env[f][SlotOf(rt.env[f], name)][2] =
                                @ + Eval(rt, CurStmt.val),
                            !.ip = @ + 1]
    /\ UNCHANGED pc
    /\ RunFrame

\* the } of a loop body: its block ends and the guard is evaluated again
RunEnd ==
    /\ Exec("end")
    /\ rt' = [rt EXCEPT !.env = Front(@), !.ip = MatchWhile(code, rt.ip - 1, 0)]
    /\ UNCHANGED pc
    /\ RunFrame

RunPrintInit ==
    /\ Exec("print_init")
    /\ rt' = [rt EXCEPT !.i = rt.p - 1, !.ip = @ + 1]
    /\ UNCHANGED pc
    /\ RunFrame

RunPrint ==
    /\ Exec("print")
    /\ rt.i # -1
    /\ rt' = [rt EXCEPT !.out = Append(@, rt.s[rt.i + 1]), !.i = @ - 1]
    /\ UNCHANGED pc
    /\ RunFrame

RunPrintEnd ==
    /\ Exec("print")
    /\ rt.i = -1
    /\ rt' = [rt EXCEPT !.ip = @ + 1]
    /\ pc' = "done"
    /\ RunFrame

RunFault ==
    /\ Running
    /\ Faulting
    /\ rt' = [rt EXCEPT !.fault = CurStmt.op]
    /\ pc' = "ub"
    /\ RunFrame

\* undefined behaviour: the program may stop, or go on and print anything
RunUndefined ==
    /\ pc = "ub"
    /\ \E more \in {<<>>, <<0>>, <<1>>} : rt' = [rt EXCEPT !.out = @ \o more]
    /\ pc' = "done"
    /\ RunFrame

(***************************************************************************)
(* impl Value: the mutators applied to one Value, from Value::zero().      *)
(***************************************************************************)
ValAtoms == {CurStackElem(0), OffStackSize, LoopResult(1)}
Coefs == {n \in (0 - MaxCoef)..MaxCoef : n # 0}
InRange(v) ==
    /\ Abs(v.const_val) <= MaxCoef
    /\ \A i \in 1..Len(v.parts) : Abs(v.parts[i][2]) <= MaxCoef

\* canonical Values of at most two parts, the arguments of add
Others ==
    {[const_val |-> c, parts |-> <<>>] : c \in {0, 1}}
    \cup {[const_val |-> 0, parts |-> <<<<a, n>>>>] : a \in ValAtoms, n \in {-1, 1}}
    \cup UNION {{[const_val |-> 1, parts |-> <<<<a, n>>, <<b, m>>>>] :
                    b \in ValAtoms \ {a}, n \in {-1, 1}, m \in {-1, 1}} :
                 a \in ValAtoms}

\* hist holds the last operation applied and whether it removed an entry
ValFrame(op) ==
    /\ hist' = <<[op |-> op, removed |-> Len(val'.parts) < Len(val.parts)]>>
    /\ UNCHANGED <<pc, fs, opt, src, args, lx, diags, tree, todo, tr, expr, code, rt>>

ValNegate ==
    /\ pc = "value"
    /\ val' = negate(val)
    /\ ValFrame("negate")

ValAddConst ==
    /\ pc = "value"
    /\ \E n \in {-1, 1} : val' = add_const(val, n)
    /\ InRange(val')
    /\ ValFrame("add_const")

ValAddPartN ==
    /\ pc = "value"
    /\ \E part \in ValAtoms, n \in Coefs : val' = add_part_n(val, part, n)
    /\ InRange(val')
    /\ ValFrame("add_part_n")

ValAdd ==
    /\ pc = "value"
    /\ \E other \in Others : val' = add(val, other)
    /\ InRange(val')
    /\ ValFrame("add")

(***************************************************************************)
(* Inputs.                                                                 *)
(***************************************************************************)
ScenarioA == <<"(", "1", ")", "(", "1", ")", "(", "1", ")">>
PushOnes == <<"(", "(", ")", ")", "(", "(", ")", ")", "(", "(", ")", ")">>
ScenarioB == <<"{", "(", "-", "1", ")", "}">>
Countdown == <<"{", "(", "{", "}", "[", "(", ")", "]", ")", "}">>
MoveThenPush == <<"(", "{", "}", "<", ">", ")", "<", ">", "(", "(", ")", ")">>
Unclosed == <<"(", "(", ")">>
Mismatched == <<"(", "(", ")", "]">>
StrayClose == <<"(", ")", ")">>
UnclosedComment == <<"(", ")", "#", "{", "x">>
NestedLoopSum == <<"(", "{", "{", "{", "}", "}", "}", ")">>
LoopAfterPop == <<"{", "{", "}", "{", "{", "}", "}", "}">>

Sources ==
    {ScenarioA, PushOnes, ScenarioB, Countdown, MoveThenPush,
     Unclosed, Mismatched, StrayClose, UnclosedComment, NestedLoopSum, LoopAfterPop,
     <<"<", ">", "<", ">", "(", "(", ")", ")">>,
     <<"<", ">", "(", "(", ")", ")">>,
     <<"#", "c", "\n", "[", "]">>,
     <<"a", "<", "(", ")", ">">>,
     <<"#", "{", "x", "{", "}", "}", "(", ")">>,
     <<"[", "(", ")", "]">>,
     <<"{", "}">>}

ArgLists == {<<>>, <<3>>, <<2, 1>>}

\* (()) written k times: the text, what parse() returns for it, and what
\* translate() leaves for it: one batch of k pushes of the constant 1
ManyPushesSrc(k) == [i \in 1..(4 * k) |-> IF i % 4 \in {1, 2} THEN "(" ELSE ")"]
ManyPushesAst(k) == [i \in 1..k |-> Compound("Push", <<Nilad("One")>>)]
ManyPushesBatch(k) ==
    [StackEffect_new EXCEPT !.cur_push = [i \in 1..k |-> [const_val |-> 1, parts |-> <<>>]]]
ManyPushes(k) ==
    [effects |-> <<EffectStack(ManyPushesBatch(k))>>,
     result |-> [const_val |-> k, parts |-> <<>>]]

PushCounts == {InitCap + 1, 2 * InitCap + 1}

InitFiles == {[cfile |-> f, exe |-> f] : f \in {"absent", "old"}}

Idle ==
    /\ lx = lex_start
    /\ diags = <<>>
    /\ tree = <<>>
    /\ todo = <<>>
    /\ tr = tr_start
    /\ hist = <<>>
    /\ code = <<>>
    /\ rt = rt_start
    /\ val = zero

\* the compiler is started on a source file
InitMain ==
    /\ pc = "main"
    /\ fs \in InitFiles
    /\ opt \in [output_c : BOOLEAN]
    /\ src \in Sources
    /\ args \in ArgLists
    /\ expr = NoExprYet
    /\ Idle

\* the compiler has translated (()) written k times and is about to generate;
\* the history of that translation is not kept
InitManyPushes ==
    \E k \in PushCounts :
        /\ pc = "translated"
        /\ fs = [cfile |-> "empty", exe |-> "absent"]
        /\ opt = [output_c |-> FALSE]
        /\ src = ManyPushesSrc(k)
        /\ args = <<>>
        /\ lx = [lex_start EXCEPT
                    !.pos = 4 * k,
                    !.ts = [i \in 1..(4 * k) |->
                              Token(IF i % 4 \in {1, 2} THEN "Open" ELSE "Close",
                                    "Paren", i - 1)]]
        /\ diags = <<>>
        /\ tree = ManyPushesAst(k)
        /\ todo = <<>>
        /\ tr = [effects |-> <<>>, cur_effect |-> ManyPushesBatch(k),
                 result |-> [const_val |-> k, parts |-> <<>>]]
        /\ hist = <<>>
        /\ expr = ManyPushes(k)
        /\ code = <<>>
        /\ rt = rt_start
        /\ val = zero

\* n arguments, all 0
ManyArgs(n) == [i \in 1..n |-> 0]

\* the compiler is started on the empty source; its program will be run with one
\* argument more than the initial capacity
InitManyArgs ==
    /\ pc = "main"
    /\ fs = [cfile |-> "absent", exe |-> "absent"]
    /\ opt = [output_c |-> FALSE]
    /\ src = <<>>
    /\ args = ManyArgs(InitCap + 1)
    /\ expr = NoExprYet
    /\ Idle

Init == InitMain

InitMany == InitMain \/ InitManyPushes \/ InitManyArgs

Next ==
    \/ MainCreate \/ MainRead
    \/ LexInLineComment \/ LexInBlockComment \/ LexDelim \/ LexHash \/ LexJunk \/ LexEnd
    \/ Parse \/ MainTranslate
    \/ TrOne \/ TrSize \/ TrPop \/ TrToggle \/ TrPush \/ TrNegate \/ TrLoop \/ TrExec
    \/ TrFinish
    \/ MainCompile \/ MainGcc
    \/ RunStart \/ RunPrologue \/ RunBatch \/ RunGrow \/ RunTemp \/ RunStore \/ RunAdd
    \/ RunSwap \/ RunDecl \/ RunWhileEnter \/ RunWhileExit \/ RunAcc \/ RunEnd
    \/ RunPrintInit \/ RunPrint \/ RunPrintEnd \/ RunFault \/ RunUndefined

Spec == Init /\ [][Next]_vars

\* the same, with the long runs of pushes among the inputs
SpecMany == InitMany /\ [][Next]_vars

\* a statement of the compiled program
RunStep ==
    \/ RunPrologue \/ RunBatch \/ RunGrow \/ RunTemp \/ RunStore \/ RunAdd
    \/ RunSwap \/ RunDecl \/ RunWhileEnter \/ RunWhileExit \/ RunAcc \/ RunEnd
    \/ RunPrintInit \/ RunPrint \/ RunPrintEnd \/ RunFault \/ RunUndefined

\* the compiled program is a sequential program: once started, it executes its
\* next statement for as long as there is one
FairSpec == Spec /\ WF_vars(RunStep)

(***************************************************************************)
(* translate() and compile() on every instruction tree of at most MaxNodes *)
(* instructions that parse() can return (a compound's body is never empty) *)
(***************************************************************************)
RECURSIVE AstsBySize(_)
\* AstsBySize(n)[k + 1] is the set of the Asts of k instructions, for k in 0..n
AstsBySize(n) ==
    IF n = 0 THEN << {<<>>} >>
    ELSE LET t == AstsBySize(n - 1)
             WithBody(k) ==
                 LET bodies == t[k + 1]
                     rests == t[n - k]
                 IN  {<<Compound(op, body)>> \o rest :
                         op \in Compounds, body \in bodies, rest \in rests}
             nilad_first == LET rests == t[n]
                            IN  {<<Nilad(op)>> \o rest : op \in Nilads, rest \in rests}
         IN  Append(t, nilad_first \cup UNION {WithBody(k) : k \in 1..(n - 1)})

\* the Asts of at most n instructions
Asts(n) == LET t == AstsBySize(n) IN UNION {t[k] : k \in 1..(n + 1)}

InitTr ==
    /\ pc = "translate"
    /\ fs = [cfile |-> "empty", exe |-> "absent"]
    /\ opt = [output_c |-> TRUE]
    /\ src = <<>>
    /\ args = <<>>
    /\ lx = lex_start
    /\ diags = <<>>
    /\ tree \in Asts(MaxNodes)
    /\ todo = tree
    /\ tr = tr_start
    /\ hist = <<>>
    /\ expr = NoExprYet
    /\ code = <<>>
    /\ rt = rt_start
    /\ val = zero

NextTr ==
    \/ TrOne \/ TrSize \/ TrPop \/ TrToggle \/ TrPush \/ TrNegate \/ TrLoop \/ TrExec
    \/ TrFinish
    \/ MainCompile

SpecTr == InitTr /\ [][NextTr]_vars

(***************************************************************************)
(* The Value algebra.                                                      *)
(***************************************************************************)
InitVal ==
    /\ pc = "value"
    /\ fs = [cfile |-> "absent", exe |-> "absent"]
    /\ opt = [output_c |-> FALSE]
    /\ src = <<>>
    /\ args = <<>>
    /\ expr = NoExprYet
    /\ Idle

NextVal == ValNegate \/ ValAddConst \/ ValAddPartN \/ ValAdd

SpecVal == InitVal /\ [][NextVal]_vars

(***************************************************************************)
(* parser.rs alone: parse() called on every text of up to MaxChars         *)
(* characters of ParseChars.                                               *)
(***************************************************************************)
\* three of the four kinds of bracket, a junk character, the comment marker and
\* the newline
ParseChars == {"(", ")", "{", "}", "[", "]", "x", "#", "\n"}

Texts(n) == UNION {[1..k -> ParseChars] : k \in 0..n}

InitParse ==
    /\ pc = "read"
    /\ fs = [cfile |-> "empty", exe |-> "absent"]
    /\ opt = [output_c |-> FALSE]
    /\ src \in Texts(MaxChars)
    /\ args = <<>>
    /\ expr = NoExprYet
    /\ Idle

NextParse ==
    \/ MainRead
    \/ LexInLineComment \/ LexInBlockComment \/ LexDelim \/ LexHash \/ LexJunk \/ LexEnd
    \/ Parse

SpecParse == InitParse /\ [][NextParse]_vars

(***************************************************************************)
(* Properties.                                                             *)
(***************************************************************************)
ActiveStack(r) == SubSeq(r.s, 1, r.p)

RECURSIVE BatchesIn(_)
\* the StackEffects of a log, those of the loop bodies included
BatchesIn(effects) ==
    UNION {IF effects[i].k = "Stack" THEN {effects[i].e}
           ELSE BatchesIn(effects[i].e.effects) : i \in 1..Len(effects)}

\* the StackEffects that exist: the open one, the logged ones, the finished Expr's
AllBatches == {tr.cur_effect} \cup BatchesIn(tr.effects) \cup BatchesIn(expr.effects)
Emitted == BatchesIn(tr.effects) \cup BatchesIn(expr.effects)

RECURSIVE CountToggled(_)
CountToggled(effects) ==
    IF effects = <<>> THEN 0
    ELSE (IF Head(effects).k = "Stack"
          THEN (IF Head(effects).e.toggle THEN 1 ELSE 0)
          ELSE CountToggled(Head(effects).e.effects))
         + CountToggled(Tail(effects))

CountOp(c, op) == Cardinality({i \in 1..Len(c) : c[i].op = op})

\* the last two instructions translate() iterated were a and then b
LastTwo(a, b) ==
    /\ pc = "translate"
    /\ Len(hist) >= 2
    /\ hist[Len(hist) - 1].inst.op = a
    /\ hist[Len(hist)].inst.op = b

\* the last instruction translate() iterated was a
LastOne(a) ==
    /\ pc = "translate"
    /\ Len(hist) >= 1
    /\ hist[Len(hist)].inst.op = a

\* C1: every temporary of a batch holds the value its expression has on the
\* memory the batch began with, and none is computed after a slot write of the
\* same batch has landed
C1_TempsSeeEntryMemory ==
    pc = "run" => (rt.tmp[1] = rt.tmp[2] /\ ~rt.late)

\* C2: a reallocation leaves the capacity at least the old top plus the
\* batch's net growth, so that no store of the batch lands at or above it
C2_GrowthSuffices ==
    rt.grown[3] # 0 => rt.grown[3] >= rt.grown[1] + rt.grown[2]

\* what translating the body of the Push before the last Pop returned
C3_Sub ==
    LET b == hist[Len(hist) - 1] IN
    translate_with_effects(b.inst.body, b.before.effects, b.before.cur_effect)

\* the running sum has gained the body's result exactly twice
C3_GainedTwice ==
    LET before == hist[Len(hist) - 1].before.result
        x == C3_Sub.result
    IN  /\ tr.result.const_val = before.const_val + 2 * x.const_val
        /\ \A part \in PartsOf(tr.result) \cup PartsOf(before) \cup PartsOf(x) :
              CoefSum(tr.result.parts, part)
                  = CoefSum(before.parts, part) + 2 * CoefSum(x.parts, part)

\* C3, as amended: after Push(X) immediately followed by Pop the open batch and
\* the effect log are what translating X's own instructions left (the pair
\* itself counts no pop and queues nothing), and the running sum has gained
\* X's result exactly twice
C3_PushPopCancel ==
    LastTwo("Push", "Pop") =>
        /\ tr.cur_effect = C3_Sub.cur_effect
        /\ tr.effects = C3_Sub.effects
        /\ C3_GainedTwice

\* the pair was translated, and X itself popped
C3_Witness ==
    /\ LastTwo("Push", "Pop")
    /\ hist[Len(hist) - 1].inst.body = <<Nilad("Pop")>>
    /\ tr.cur_effect # hist[Len(hist) - 1].before.cur_effect

\* C3, as claimed: after the pair the active pop count and the active push queue
\* are what they were before the pair
C3_AsClaimed ==
    LastTwo("Push", "Pop") =>
        /\ pop_of(tr.cur_effect) = pop_of(hist[Len(hist) - 1].before.cur_effect)
        /\ push_of(tr.cur_effect) = push_of(hist[Len(hist) - 1].before.cur_effect)
        /\ C3_GainedTwice

\* C4, as amended: (())(())(()) run with no inputs ends with the stack 1 1 1
\* and prints 1, 1, 1
C4_PushOnes ==
    (src = PushOnes /\ args = <<>> /\ pc = "done") =>
        /\ rt.fault = ""
        /\ rt.p = 3
        /\ ActiveStack(rt) = <<1, 1, 1>>
        /\ rt.out = <<1, 1, 1>>

C4_Witness == src = PushOnes /\ args = <<>> /\ pc = "done" /\ rt.p = 3

\* C4, as claimed: (1)(1)(1) run with no inputs ends with the stack 1 1 1 and
\* prints 1, 1, 1
C4_AsClaimed ==
    (src = ScenarioA /\ args = <<>> /\ pc = "done") =>
        /\ rt.p = 3
        /\ ActiveStack(rt) = <<1, 1, 1>>
        /\ rt.out = <<1, 1, 1>>

\* the countdown run on the single input 3
C5_Run == src = Countdown /\ args = <<3>>

\* C5, as amended: {({}[()])} run on the input 3 tests the live top element
\* before every iteration, runs the body exactly 3 times, and then terminates
\* with the stack 0 and prints 0
C5_Countdown ==
    /\ [](C5_Run =>
            /\ rt.iters <= 3
            /\ (pc = "run" /\ CurStmt.op = "while") =>
                   (rt.p = 1 /\ rt.s[rt.p] = 3 - rt.iters)
            /\ pc # "ub"
            /\ pc = "done" =>
                   (rt.iters = 3 /\ rt.p = 1 /\ ActiveStack(rt) = <<0>>
                        /\ rt.out = <<0>>))
    /\ ((C5_Run /\ pc = "run") ~> pc = "done")

C5_Witness == C5_Run /\ pc = "done" /\ rt.iters = 3

\* C5, as claimed: {(-1)} run on the input 3 runs the body exactly 3 times,
\* and ends with the stack 0 and prints 0
C5_AsClaimed ==
    (src = ScenarioB /\ args = <<3>>) =>
        /\ rt.iters <= 3
        /\ pc = "done" => (rt.iters = 3 /\ ActiveStack(rt) = <<0>> /\ rt.out = <<0>>)

\* C6: after negate, add_const, add_part_n with a nonzero coefficient and add, a
\* Value holds at most one entry per atom and no entry with coefficient 0
C6_Canonical == pc = "value" => Canonical(val)

\* an add has cancelled an entry and left others
C6_Witness ==
    /\ pc = "value"
    /\ hist # <<>>
    /\ hist[1].op = "add"
    /\ hist[1].removed
    /\ val.parts # <<>>

\* a batch holds a mutation
C7_Pending(e) ==
    e.cur_pop > 0 \/ e.off_pop > 0 \/ e.cur_push # <<>> \/ e.off_push # <<>> \/ e.toggle

\* C7: when translate() meets a Loop, every mutation pending in the open batch
\* is logged as a StackEffect before the LoopEffect, and the batch that is
\* open after the Loop has zero pops, empty queues and a false toggle
C7_LoopFlushes ==
    LastOne("Loop") =>
        LET b == hist[Len(hist)].before
            n == Len(tr.effects)
        IN  /\ tr.cur_effect.cur_pop = 0 /\ tr.cur_effect.off_pop = 0
            /\ tr.cur_effect.cur_push = <<>> /\ tr.cur_effect.off_push = <<>>
            /\ tr.cur_effect.toggle = FALSE
            /\ n >= 1
            /\ tr.effects[n].k = "Loop"
            /\ IF C7_Pending(b.cur_effect)
               THEN /\ n = Len(b.effects) + 2
                    /\ SubSeq(tr.effects, 1, n - 2) = b.effects
                    /\ tr.effects[n - 1] = EffectStack(b.cur_effect)
               ELSE /\ n = Len(b.effects) + 1
                    /\ SubSeq(tr.effects, 1, n - 1) = b.effects

\* Push(A) and then Loop(B): the batch with A's push is logged before the loop
C7_Witness ==
    /\ LastTwo("Push", "Loop")
    /\ Len(tr.effects) >= 2
    /\ tr.effects[Len(tr.effects) - 1].k = "Stack"
    /\ tr.effects[Len(tr.effects) - 1].e.cur_push # <<>>

\* C8: a batch's toggle flag is true exactly when an odd number of Toggle
\* instructions were iterated while it was open, and the generated program
\* holds one exchange for each batch whose flag is true and none for the others
C8_ToggleParity ==
    /\ \A e \in AllBatches : e.toggle <=> (e.toggles % 2 = 1)
    /\ code # <<>> => CountOp(code, "swap") = CountToggled(expr.effects)

\* code was generated for a batch that was open over three Toggle instructions
C8_Witness ==
    /\ code # <<>>
    /\ \E e \in BatchesIn(expr.effects) : e.toggles = 3 /\ e.toggle
    /\ CountOp(code, "swap") = 1

\* the parse failed fatally and main returned
C9_ParseFailed ==
    /\ pc = "exit"
    /\ \E i \in 1..Len(diags) : diags[i].level = "error"

\* C9: after a fatal parser error no output file has been created or
\* overwritten, translation and generation were never started, and the
\* process has exited cleanly
C9_NoOutputOnError ==
    C9_ParseFailed =>
        /\ fs \in InitFiles
        /\ hist = <<>> /\ expr = NoExprYet /\ code = <<>>

\* C10, as amended: is_empty holds of a batch exactly when both pop counts are
\* 0, both queues are empty and the toggle flag is false, and every StackEffect
\* in a log has a nonzero pop count, a non-empty queue or a true toggle flag
C10_NoEmptyBatchLogged ==
    /\ \A e \in AllBatches :
          is_empty(e) <=>
              (e.cur_pop = 0 /\ e.off_pop = 0 /\ e.cur_push = <<>>
                  /\ e.off_push = <<>> /\ ~e.toggle)
    /\ \A e \in Emitted :
          e.cur_pop > 0 \/ e.off_pop > 0 \/ e.cur_push # <<>> \/ e.off_push # <<>>
              \/ e.toggle

\* a batch that only toggles was logged
C10_Witness ==
    /\ pc = "translated"
    /\ \E e \in BatchesIn(expr.effects) :
          e.cur_pop = 0 /\ e.off_pop = 0 /\ e.cur_push = <<>> /\ e.off_push = <<>>
              /\ e.toggle

\* C10, as claimed: a batch is empty exactly when both pop counts are 0 and both
\* queues are empty, and every StackEffect in a log has a nonzero pop count or
\* a non-empty queue on some side
C10_AsClaimed ==
    /\ \A e \in AllBatches :
          is_empty(e) <=>
              (e.cur_pop = 0 /\ e.off_pop = 0 /\ e.cur_push = <<>> /\ e.off_push = <<>>)
    /\ \A e \in Emitted :
          e.cur_pop > 0 \/ e.off_pop > 0 \/ e.cur_push # <<>> \/ e.off_push # <<>>

\* the accumulators the expression of the statement about to run names
AccumulatorsRead ==
    IF Running /\ CurStmt.op \in {"temp", "acc"}
    THEN {LoopName(CurStmt.val.terms[k].n) :
             k \in {j \in 1..Len(CurStmt.val.terms) : CurStmt.val.terms[j].ref = "r"}}
    ELSE {}

\* C11: whenever the generated program evaluates an expression that names a loop
\* accumulator, the name denotes the accumulator declared in the block the
\* expression's own effect log is generated into (the innermost open block),
\* whose loop stands before the expression in that block and has run to
\* completion
C11_ReadsOwnLogsAccumulator ==
    \A name \in AccumulatorsRead : FrameOf(rt.env, name) = Len(rt.env)

Reverse(q) == [i \in 1..Len(q) |-> q[Len(q) + 1 - i]]

\* C12: the generated program seeds the active stack with its arguments in
\* order, the first at the base, without writing outside the array, and on
\* completion has printed the final active stack from the top slot down to
\* the base, one line per element and none for an empty stack
C12_SeedsAndPrints ==
    /\ rt.fault # "prologue"
    /\ (pc = "run" /\ rt.ip = 2) => (rt.p = Len(args) /\ ActiveStack(rt) = args)
    /\ (pc = "done" /\ rt.fault = "") =>
           (rt.p >= 0 /\ Len(rt.out) = rt.p /\ rt.out = Reverse(ActiveStack(rt)))

\* the side a batch addresses after the Toggle instructions iterated so far
SideOf(e) == IF e.toggles % 2 = 0 THEN "cur" ELSE "off"
OtherSide(sd) == IF sd = "cur" THEN "off" ELSE "cur"
Pops(e, sd) == IF sd = "cur" THEN e.cur_pop ELSE e.off_pop
Queue(e, sd) == IF sd = "cur" THEN e.cur_push ELSE e.off_push
ElemAtom(sd, n) == IF sd = "cur" THEN CurStackElem(n) ELSE OffStackElem(n)
SizeAtom(sd) == IF sd = "cur" THEN CurStackSize ELSE OffStackSize

\* the state before the last instruction translate() iterated
Before == hist[Len(hist)].before

\* the last instruction left the side sd of the batch alone
SideKept(sd) ==
    /\ Pops(tr.cur_effect, sd) = Pops(Before.cur_effect, sd)
    /\ Queue(tr.cur_effect, sd) = Queue(Before.cur_effect, sd)

\* the running sum gained the atom once, and c on its constant
Gained(atom, c) ==
    /\ tr.result.const_val = Before.result.const_val + c
    /\ \A part \in PartsOf(tr.result) \cup PartsOf(Before.result) \cup {atom} :
          CoefSum(tr.result.parts, part)
              = CoefSum(Before.result.parts, part) + (IF part = atom THEN 1 ELSE 0)

C13_Pop ==
    LastOne("Pop") =>
        LET b == Before.cur_effect
            sd == SideOf(b)
        IN  /\ SideKept(OtherSide(sd))
            /\ IF Queue(b, sd) = <<>>
               THEN /\ Pops(tr.cur_effect, sd) = Pops(b, sd) + 1
                    /\ Queue(tr.cur_effect, sd) = <<>>
                    /\ Gained(ElemAtom(sd, Pops(b, sd)), 0)
               ELSE /\ Pops(tr.cur_effect, sd) = Pops(b, sd)
                    /\ Queue(tr.cur_effect, sd) = Front(Queue(b, sd))
                    /\ SameValue(tr.result, add(Before.result, Last(Queue(b, sd))))

C13_Size ==
    LastOne("Size") =>
        LET b == Before.cur_effect
            sd == SideOf(b)
        IN  /\ tr.cur_effect = b
            /\ Gained(SizeAtom(sd), Len(Queue(b, sd)) - Pops(b, sd))

C13_Push ==
    LastOne("Push") =>
        LET h == hist[Len(hist)]
            sub == translate_with_effects(h.inst.body, Before.effects, Before.cur_effect)
            sd == SideOf(sub.cur_effect)
        IN  /\ Pops(tr.cur_effect, sd) = Pops(sub.cur_effect, sd)
            /\ Queue(tr.cur_effect, sd) = Append(Queue(sub.cur_effect, sd), sub.result)
            /\ Pops(tr.cur_effect, OtherSide(sd)) = Pops(sub.cur_effect, OtherSide(sd))
            /\ Queue(tr.cur_effect, OtherSide(sd)) = Queue(sub.cur_effect, OtherSide(sd))

\* C13: within one batch, after an even number of Toggle instructions Pop, Push
\* and Size use the active side's pop counter, push queue and Cur atoms, after an
\* odd number the inactive side's and Off atoms; two consecutive Toggles leave
\* the side addressed as it was, and a batch of an even number of Toggles is
\* generated without the exchange
C13_Polarity ==
    /\ C13_Pop
    /\ C13_Size
    /\ C13_Push
    /\ LastTwo("Toggle", "Toggle") =>
           SideOf(tr.cur_effect) = SideOf(hist[Len(hist) - 1].before.cur_effect)
    /\ \A e \in BatchesIn(expr.effects) :
           e.toggles % 2 = 0 => CountOp(compile_stack_arm(e, 0), "swap") = 0

\* two Toggles and then a Pop were translated, and the program was generated
C13_Witness ==
    /\ tree = <<Nilad("Toggle"), Nilad("Toggle"), Nilad("Pop")>>
    /\ code # <<>>
    /\ \E e \in BatchesIn(expr.effects) : e.toggles = 2 /\ e.cur_pop = 1 /\ e.off_pop = 0
    /\ CountOp(code, "swap") = 0

RECURSIVE HasLoop(_)
HasLoop(ast) ==
    \E i \in 1..Len(ast) : ast[i].op = "Loop" \/ HasLoop(ast[i].body)

RECURSIVE Heights(_, _)
\* the language's own account of a loop-free instruction sequence: h.cur and h.off
\* are the changes of height of the stack that was active, and of the one that
\* was inactive, when the sequence began; h.flip tells which one is active now
Heights(ast, h) ==
    IF ast = <<>> THEN h
    ELSE LET inst == Head(ast)
             inner == Heights(inst.body, h)
             by(g, n) == IF g.flip THEN [g EXCEPT !.off = @ + n]
                         ELSE [g EXCEPT !.cur = @ + n]
             next == CASE inst.op = "Pop" -> by(h, -1)
                       [] inst.op = "Toggle" -> [h EXCEPT !.flip = ~@]
                       [] inst.op = "Push" -> by(inner, 1)
                       [] inst.op \in {"Negate", "Exec"} -> inner
                       [] OTHER -> h
         IN  Heights(Tail(ast), next)

\* the instructions translate() iterated before the last one
Preceding == [i \in 1..(Len(hist) - 1) |-> hist[i].inst]

\* C14: a Size adds the height atom of the side the polarity selects plus that
\* side's pending pushes less its pending pops, so that on the pointers the
\* batch began with the sum is the height that side has where the Size stands,
\* whatever Push, Pop and Toggle instructions stand before it in the batch
C14_SizeIsHeightHere ==
    (LastOne("Size") /\ ~HasLoop(Preceding)) =>
        LET h == Heights(Preceding, [cur |-> 0, off |-> 0, flip |-> FALSE])
        IN  Gained(IF h.flip THEN OffStackSize ELSE CurStackSize,
                   IF h.flip THEN h.off ELSE h.cur)

\* a Size after a Toggle and a Push: the inactive side, one above its entry height
C14_Witness ==
    /\ LastOne("Size")
    /\ Preceding = <<Nilad("Toggle"), Compound("Push", <<Nilad("One")>>)>>
    /\ CoefSum(tr.result.parts, OffStackSize) = 1
    /\ tr.result.const_val = 2

\* the delimiters among the tokens, as <<"Open" or "Close", kind>>
Delims(ts) ==
    LET d == SelectSeq(ts, LAMBDA t : t.ty # "Junk")
    IN  [i \in 1..Len(d) |-> <<d[i].ty, d[i].d>>]

RECURSIVE Matching(_, _)
\* what a left-to-right reading of the delimiters finds, `open` being the kinds
\* opened and not yet closed, innermost first
Matching(ds, open) ==
    IF ds = <<>> THEN IF open = <<>> THEN "matched" ELSE "unclosed delimiter"
    ELSE IF ds[1][1] = "Open" THEN Matching(Tail(ds), <<ds[1][2]>> \o open)
    ELSE IF open = <<>> THEN "unexpected closing delimiter"
    ELSE IF open[1] # ds[1][2] THEN "incorrect closing delimiter"
    ELSE Matching(Tail(ds), Tail(open))

KindOf(op) ==
    CASE op \in {"One", "Push"} -> "Paren"
      [] op \in {"Pop", "Loop"} -> "Brace"
      [] op \in {"Size", "Negate"} -> "Bracket"
      [] op \in {"Toggle", "Exec"} -> "Angle"

RECURSIVE Written(_)
\* the delimiters an instruction tree is written with
Written(ast) ==
    IF ast = <<>> THEN <<>>
    ELSE <<(<<"Open", KindOf(ast[1].op)>>)>> \o Written(ast[1].body)
         \o <<(<<"Close", KindOf(ast[1].op)>>)>> \o Written(Tail(ast))

RECURSIVE NiladsAreEmptyPairs(_)
\* the nilads of the tree are its pairs with nothing between them
NiladsAreEmptyPairs(ast) ==
    \A i \in 1..Len(ast) :
        IF ast[i].op \in Nilads THEN ast[i].body = <<>>
        ELSE ast[i].body # <<>> /\ NiladsAreEmptyPairs(ast[i].body)

LexFailed == \E i \in 1..Len(diags) : diags[i].msg = "unclosed block comment"
ParseReturned == pc \in {"parsed", "exit", "panic"}

\* C15 as written: parse returns a tree iff the delimiters outside comments match
C15_AsClaimed ==
    ParseReturned => (pc = "parsed" <=> Matching(Delims(lx.ts), <<>>) = "matched")

\* C15: when no block comment is left unclosed, parse returns a tree iff the
\* delimiters outside comments are matched and nested, its fatal diagnostic names
\* what the first unmatched delimiter is, and the tree it returns is written with
\* exactly those delimiters, a pair with no delimiter between its brackets being the
\* nilad of its kind and any other pair the compound of its kind; with a block
\* comment left unclosed it returns no tree
C15_ParsesMatched ==
    ParseReturned =>
        /\ pc # "panic"
        /\ LexFailed => pc = "exit"
        /\ ~LexFailed =>
              LET m == Matching(Delims(lx.ts), <<>>) IN
              /\ pc = "parsed" <=> m = "matched"
              /\ pc = "exit" => Last(diags).level = "error" /\ Last(diags).msg = m
              /\ pc = "parsed" =>
                    /\ Written(tree) = Delims(lx.ts)
                    /\ NiladsAreEmptyPairs(tree)

\* a compound holding a nilad whose brackets enclose junk
C15_Witness ==
    /\ pc = "parsed"
    /\ tree = <<Compound("Loop", <<Nilad("Size")>>)>>
    /\ Len(lx.ts) = 5
    /\ lx.ts[3].ty = "Junk"

InCode == [m |-> "code", depth |-> 0]
AfterHash == [m |-> "hash", depth |-> 0]
InLine == [m |-> "line", depth |-> 0]
InBlock(n) == [m |-> "block", depth |-> n]

RECURSIVE CommentAt(_, _)
\* where the first k characters of the text leave a reader of its comments: in
\* code, just after the '#' that starts a comment, further on in a line comment,
\* or in a block comment of some depth
CommentAt(text, k) ==
    IF k = 0 THEN InCode
    ELSE LET before == CommentAt(text, k - 1)
             c == text[k]
         IN  CASE before.m = "code" -> IF c = "#" THEN AfterHash ELSE InCode
               [] before.m = "hash" ->
                     IF c = "{" THEN InBlock(1) ELSE IF c = "\n" THEN InCode ELSE InLine
               [] before.m = "line" -> IF c = "\n" THEN InCode ELSE InLine
               [] before.m = "block" ->
                     IF c = "{" THEN InBlock(before.depth + 1)
                     ELSE IF c # "}" THEN before
                     ELSE IF before.depth = 1 THEN InCode
                     ELSE InBlock(before.depth - 1)

\* the positions of the characters read so far that stand in code and are not '#'
CodePositions ==
    {k \in 0..(lx.pos - 1) : CommentAt(src, k).m = "code" /\ src[k + 1] # "#"}

\* C16: after any number of characters, lex is in a line comment exactly from a
\* '#' read in code up to the next newline, unless '{' follows the '#' at once,
\* and then in a block comment whose depth rises on '{', falls on '}' and which
\* ends at depth 0; every delimiter read in code has its token, every run of other
\* characters read in code has one, and no token comes from a character of a
\* comment; lex fails iff the depth is above 0 at the end of the text
C16_CommentMachine ==
    pc \in {"lex", "parse", "parsed", "exit", "panic"} =>
        LET at == CommentAt(src, lx.pos) IN
        /\ lx.line_is_comment <=> at.m \in {"hash", "line"}
        /\ lx.last_was_hash => at.m = "hash"
        /\ at.m = "hash" => lx.last_was_hash
        /\ lx.block_comment_level = at.depth
        /\ {lx.ts[i].pos : i \in 1..Len(lx.ts)} \subseteq CodePositions
        /\ \A k \in CodePositions :
              IF src[k + 1] \in Openers \cup Closers
              THEN \E i \in 1..Len(lx.ts) :
                      lx.ts[i] = Token(IF src[k + 1] \in Openers THEN "Open" ELSE "Close",
                                       DelimType(src[k + 1]), k)
              ELSE \E i \in 1..Len(lx.ts) :
                      /\ lx.ts[i].ty = "Junk"
                      /\ lx.ts[i].pos <= k
                      /\ \A j \in lx.ts[i].pos..k :
                            j \in CodePositions => src[j + 1] \notin Openers \cup Closers
        /\ pc # "lex" => lx.pos = Len(src) /\ (LexFailed <=> at.depth > 0)

\* a block comment was closed, and the delimiter after it has its token
C16_Witness ==
    /\ pc = "parse"
    /\ Len(src) >= 4
    /\ CommentAt(src, 2) = InBlock(1)
    /\ CommentAt(src, 3) = InCode
    /\ lx.ts # <<>>
    /\ lx.ts[1].pos = 3
    /\ lx.ts[1].ty = "Close"

\* the values queued by a batch, on either stack
QueuedIn(e) ==
    {e.cur_push[i] : i \in 1..Len(e.cur_push)} \cup {e.off_push[i] : i \in 1..Len(e.off_push)}

\* the element atom was made by a Pop of the batch: the batch pops at least as deep
PoppedBy(e, atom) ==
    /\ atom.k = "CurStackElem" => atom.n < e.cur_pop
    /\ atom.k = "OffStackElem" => atom.n < e.off_pop

\* C17: every stack-element atom of a value queued in a batch was introduced by a
\* Pop of that same batch, hence lies within the slots the batch pops; no value
\* queued after a Loop holds an element atom of the batch flushed before the Loop
C17_QueuedAtomsOfOwnBatch ==
    \A e \in AllBatches : \A v \in QueuedIn(e) : \A atom \in PartsOf(v) : PoppedBy(e, atom)

\* the indices of the stack slots the expression reads
SlotsRead(r, e) ==
    {Top(r, e.terms[k].ref) - e.terms[k].n :
        k \in {j \in 1..Len(e.terms) : e.terms[j].ref \in {"s", "o"}}}

\* C18: while the generated program runs, neither stack pointer is below 0, and
\* the expression of the statement about to run reads no stack slot below index 0
C18_NoUnderflow ==
    /\ rt.p >= 0
    /\ rt.d >= 0
    /\ (Running /\ CurStmt.op \in {"temp", "acc"}) =>
          \A idx \in SlotsRead(rt, CurStmt.val) : idx >= 0

====
